---------------------------- MODULE Spec2Model ----------------------------
(***************************************************************************)
(* A model of tinyhttp/content-type (src/src/index.ts): parse and format   *)
(* of the HTTP Content-Type header.                                        *)
(*                                                                         *)
(* A JavaScript string is a sequence of UTF-16 code units (integers); a    *)
(* JavaScript index i (0-based) is element i + 1 of the sequence.  A       *)
(* JavaScript object whose keys matter (the parameters of a ContentType)   *)
(* is the sequence of its <<key, value>> pairs in insertion order.         *)
(***************************************************************************)
EXTENDS Integers, Sequences, FiniteSets, TLC

VARIABLES
    lastIndex,   \* PARAM_REGEXP.lastIndex, the only module-level mutable state
    entryIndex,  \* PARAM_REGEXP.lastIndex as the last call found it
    op,          \* the last call: "none", "parse", "format", "parse(format)"
    arg,         \* the argument of the last call (of the pending one when op = "none")
    result       \* the outcome of the last call: a value returned or a TypeError

vars == <<lastIndex, entryIndex, op, arg, result>>

---------------------------------------------------------------------------
(* Code units the bounded inputs are drawn from.                           *)

HTAB == 9
VT == 11
SP == 32
DQUOTE == 34
SLASH == 47
COLON == 58
SEMI == 59
EQUALS == 61
UpperA == 65
BSLASH == 92
LowerA == 97
LowerB == 98

---------------------------------------------------------------------------
(* JavaScript string primitives.                                           *)

Min(a, b) == IF a < b THEN a ELSE b
Max(a, b) == IF a < b THEN b ELSE a

\* str[i], i a 0-based index below str.length
At(str, i) == str[i + 1]

\* String.prototype.substring(start, end): both clamped to 0..length, swapped
\* when start > end
substring(str, start, end) ==
    LET s == Max(0, Min(start, Len(str)))
        e == Max(0, Min(end, Len(str)))
    IN  SubSeq(str, Min(s, e) + 1, Max(s, e))

\* String.prototype.indexOf of a single code unit, from position `from`
RECURSIVE indexOfFrom(_, _, _)
indexOfFrom(str, c, from) ==
    IF from >= Len(str) THEN -1
    ELSE IF At(str, from) = c THEN from
    ELSE indexOfFrom(str, c, from + 1)

indexOf(str, c) == indexOfFrom(str, c, 0)

\* WhiteSpace and LineTerminator code units, which String.prototype.trim strips
IsJsWhiteSpace(c) ==
    \/ c \in {9, 10, 11, 12, 13, 32, 160, 5760, 8232, 8233, 8239, 8287, 12288, 65279}
    \/ c \in 8192..8202

RECURSIVE trimStart(_)
trimStart(str) ==
    IF str # <<>> /\ IsJsWhiteSpace(Head(str)) THEN trimStart(Tail(str)) ELSE str

RECURSIVE trimEnd(_)
trimEnd(str) ==
    IF str # <<>> /\ IsJsWhiteSpace(str[Len(str)])
    THEN trimEnd(SubSeq(str, 1, Len(str) - 1))
    ELSE str

\* trim that forgets the end of the string
trim_startOnly(str) == trimStart(str)

trim(str) == trimEnd(trimStart(str))

\* String.prototype.toLowerCase on the code units a token can hold (ASCII)
LowerUnit(c) == IF c \in 65..90 THEN c + 32 ELSE c

\* toLowerCase left out
toLowerCase_identity(str) == str

toLowerCase(str) == [i \in 1..Len(str) |-> LowerUnit(str[i])]

---------------------------------------------------------------------------
(* The character classes of the regular expressions.                       *)

\* [!#$%&'*+.^_`|~0-9A-Za-z-]
IsTchar(c) ==
    \/ c \in {33, 35, 36, 37, 38, 39, 42, 43, 45, 46, 94, 95, 96, 124, 126}
    \/ c \in 48..57
    \/ c \in 65..90
    \/ c \in 97..122

\* [\u000b -~\u0080-ÿ]
IsTextUnit(c) == c = 11 \/ c \in 32..126 \/ c \in 128..255

\* [\u000b !#-[]-~\u0080-ÿ]
IsQdtextUnit(c) ==
    c = 11 \/ c = 32 \/ c = 33 \/ c \in 35..91 \/ c \in 93..126 \/ c \in 128..255

\* [\u000b -ÿ]
IsQuotedPairUnit(c) == c = 11 \/ c \in 32..255

\* TOKEN_REGEXP.test(str)
TOKEN_REGEXP(str) == str # <<>> /\ \A i \in 1..Len(str) : IsTchar(str[i])

\* TEXT_REGEXP.test(str)
TEXT_REGEXP(str) == str # <<>> /\ \A i \in 1..Len(str) : IsTextUnit(str[i])

\* TYPE_REGEXP.test(str): token "/" token.  SLASH is no tchar, so the match
\* is the one split at the only SLASH.
TYPE_REGEXP(str) ==
    \E i \in 1..Len(str) :
        /\ str[i] = SLASH
        /\ TOKEN_REGEXP(SubSeq(str, 1, i - 1))
        /\ TOKEN_REGEXP(SubSeq(str, i + 1, Len(str)))

\* str.replace(QESC_REGEXP, '$1'): left to right, a backslash followed by a
\* quoted-pair unit is replaced by that unit
RECURSIVE QESC_replace(_)
QESC_replace(str) ==
    IF str = <<>> THEN <<>>
    ELSE IF Head(str) = BSLASH /\ Len(str) >= 2 /\ IsQuotedPairUnit(str[2])
    THEN <<str[2]>> \o QESC_replace(SubSeq(str, 3, Len(str)))
    ELSE <<Head(str)>> \o QESC_replace(Tail(str))

\* str.replace(QUOTE_REGEXP, '\\$1'): every backslash and double quote gets a
\* backslash before it
RECURSIVE QUOTE_replace(_)
QUOTE_replace(str) ==
    IF str = <<>> THEN <<>>
    ELSE IF Head(str) \in {BSLASH, DQUOTE}
    THEN <<BSLASH, Head(str)>> \o QUOTE_replace(Tail(str))
    ELSE <<Head(str)>> \o QUOTE_replace(Tail(str))

---------------------------------------------------------------------------
(* PARAM_REGEXP:  ; *(token) *= *("(qdtext|\quoted-pair)*"|token) *        *)
(* Every quantifier is greedy and no shorter choice can succeed where the  *)
(* longest fails (the unit after a run is never in the run's class, and a  *)
(* quoted body's units are never the closing quote), so the match at a     *)
(* start position is found by one left-to-right pass.                      *)

\* the end of the run of spaces starting at i
RECURSIVE SkipSpaces(_, _)
SkipSpaces(str, i) ==
    IF i < Len(str) /\ At(str, i) = SP THEN SkipSpaces(str, i + 1) ELSE i

\* the end of the run of tchars starting at i
RECURSIVE SkipToken(_, _)
SkipToken(str, i) ==
    IF i < Len(str) /\ IsTchar(At(str, i)) THEN SkipToken(str, i + 1) ELSE i

\* the end of (?:qdtext|\\quoted-pair)* starting at i
RECURSIVE SkipQuotedBody(_, _)
SkipQuotedBody(str, i) ==
    IF i < Len(str) /\ IsQdtextUnit(At(str, i)) THEN SkipQuotedBody(str, i + 1)
    ELSE IF /\ i + 1 < Len(str)
            /\ At(str, i) = BSLASH
            /\ IsQuotedPairUnit(At(str, i + 1))
    THEN SkipQuotedBody(str, i + 2)
    ELSE i

NoMatch == [found |-> FALSE]

\* the match of PARAM_REGEXP that starts exactly at position s, if any:
\* index, the end of match[0], match[1] and match[2]
PARAM_REGEXP_at(str, s) ==
    IF ~(s < Len(str) /\ At(str, s) = SEMI) THEN NoMatch
    ELSE
    LET k0 == SkipSpaces(str, s + 1)
        k1 == SkipToken(str, k0)
        e0 == SkipSpaces(str, k1)
    IN  IF k1 = k0 \/ ~(e0 < Len(str) /\ At(str, e0) = EQUALS) THEN NoMatch
        ELSE
        LET v0 == SkipSpaces(str, e0 + 1)
            q1 == SkipQuotedBody(str, v0 + 1)
            quoted == /\ v0 < Len(str) /\ At(str, v0) = DQUOTE
                      /\ q1 < Len(str) /\ At(str, q1) = DQUOTE
            v1 == IF quoted THEN q1 + 1 ELSE SkipToken(str, v0)
        IN  IF v1 = v0 THEN NoMatch
            ELSE [found |-> TRUE,
                  index |-> s,
                  end   |-> SkipSpaces(str, v1),
                  key   |-> substring(str, k0, k1),
                  value |-> substring(str, v0, v1)]

\* PARAM_REGEXP.exec(str) with PARAM_REGEXP.lastIndex = from (the g flag):
\* the first match at or after `from`
RECURSIVE PARAM_REGEXP_exec(_, _)
PARAM_REGEXP_exec(str, from) ==
    IF from > Len(str) THEN NoMatch
    ELSE LET m == PARAM_REGEXP_at(str, from)
         IN  IF m.found THEN m ELSE PARAM_REGEXP_exec(str, from + 1)

---------------------------------------------------------------------------
(* JavaScript values: strings, undefined, numbers, objects.                *)

Undefined == [t |-> "undefined"]
Str(s) == [t |-> "string", s |-> s]
IsString(v) == v.t = "string"

\* what a function returns, or throws (every error of the module is a TypeError)
Return(v) == [kind |-> "return", value |-> v]
Throw(msg) == [kind |-> "TypeError", message |-> msg]

\* !v for the values modelled: undefined and the empty string are falsy
Falsy(v) == v.t = "undefined" \/ (v.t = "string" /\ v.s = <<>>)

\* obj[key] = value on an object kept as its <<key, value>> pairs in insertion
\* order: an existing key keeps its place
ObjSet(o, key, value) ==
    IF \E i \in 1..Len(o) : o[i][1] = key
    THEN [i \in 1..Len(o) |-> IF o[i][1] = key THEN <<key, value>> ELSE o[i]]
    ELSE Append(o, <<key, value>>)

\* parameters[param]
ObjGet(o, key) == LET i == CHOOSE i \in 1..Len(o) : o[i][1] = key IN o[i][2]

\* Object.keys(o)
ObjKeys(o) == [i \in 1..Len(o) |-> o[i][1]]

\* the comparison of Array.prototype.sort without a comparator: by code units,
\* a proper prefix first
RECURSIVE LexLess(_, _)
LexLess(a, b) ==
    IF b = <<>> THEN FALSE
    ELSE IF a = <<>> THEN TRUE
    ELSE IF Head(a) # Head(b) THEN Head(a) < Head(b)
    ELSE LexLess(Tail(a), Tail(b))

RECURSIVE SortInsert(_, _)
SortInsert(sorted, k) ==
    IF sorted = <<>> THEN <<k>>
    ELSE IF LexLess(k, Head(sorted)) THEN <<k>> \o sorted
    ELSE <<Head(sorted)>> \o SortInsert(Tail(sorted), k)

\* keys.sort()
RECURSIVE sort(_)
sort(keys) ==
    IF keys = <<>> THEN <<>>
    ELSE SortInsert(sort(SubSeq(keys, 1, Len(keys) - 1)), keys[Len(keys)])

---------------------------------------------------------------------------
(* qstring, getcontenttype, format, parse.                                 *)

\* qstring that refuses the empty string
qstring_rejectEmpty(val) ==
    IF TOKEN_REGEXP(val) THEN Return(val)
    ELSE IF ~TEXT_REGEXP(val) THEN Throw("invalid parameter value")
    ELSE Return(<<DQUOTE>> \o QUOTE_replace(val) \o <<DQUOTE>>)

\* qstring(val), val a string (String(val) is val)
qstring(val) ==
    IF TOKEN_REGEXP(val) THEN Return(val)
    ELSE IF Len(val) > 0 /\ ~TEXT_REGEXP(val) THEN Throw("invalid parameter value")
    ELSE Return(<<DQUOTE>> \o QUOTE_replace(val) \o <<DQUOTE>>)

\* getcontenttype(obj): obj.class is the class obj is an instance of; a field
\* the object lacks is Undefined
getcontenttype(obj) ==
    LET header ==
            IF obj.class = "ServerResponse" /\ obj.getHeader.t = "function"
            THEN obj.getHeader.returns
            ELSE IF obj.class = "IncomingMessage" /\ obj.headers.t = "object"
            THEN obj.headers.contentType
            ELSE Undefined
    IN  IF ~IsString(header)
        THEN Throw("content-type header is missing from object")
        ELSE Return(header)

\* the loop of format over the sorted keys, from the string built so far
RECURSIVE formatParams(_, _, _)
formatParams(string, parameters, params) ==
    IF params = <<>> THEN Return(string)
    ELSE LET param == Head(params)
             q == qstring(ObjGet(parameters, param))
         IN  IF ~TOKEN_REGEXP(param) THEN Throw("invalid parameter name")
             ELSE IF q.kind # "return" THEN q
             ELSE formatParams(string \o <<SEMI, SP>> \o param \o <<EQUALS>> \o q.value,
                               parameters, Tail(params))

\* the keys in insertion order, the sort left out
formatKeys_unsorted(parameters) == ObjKeys(parameters)

\* the keys format walks through
formatKeys(parameters) == sort(ObjKeys(parameters))

\* format(obj)
format(obj) ==
    IF obj.t # "object" THEN Throw("argument obj is required")
    ELSE IF Falsy(obj.type) \/ ~TYPE_REGEXP(obj.type.s) THEN Throw("invalid type")
    ELSE IF obj.parameters.t = "object"
    THEN formatParams(obj.type.s, obj.parameters.entries,
                      formatKeys(obj.parameters.entries))
    ELSE Return(obj.type.s)

\* new ContentType(type)
ContentType(type) == [type |-> type, parameters |-> <<>>]

\* the value parse stores for match[2]
paramValue(value) ==
    IF At(value, 0) = DQUOTE
    THEN QESC_replace(substring(value, 1, Len(value) - 2))
    ELSE value

\* the loop's end without the check of what was consumed
afterLoop_unchecked(header, index, obj) == Return(obj)

\* the check after the loop: everything from the first ";" was consumed
afterLoop(header, index, obj) ==
    IF index # Len(header) THEN Throw("invalid parameter format") ELSE Return(obj)

\* the while loop of parse, entered with PARAM_REGEXP.lastIndex = li: the
\* outcome of parse and the lastIndex the loop leaves behind
RECURSIVE parseParams(_, _, _, _)
parseParams(header, index, li, obj) ==
    LET match == PARAM_REGEXP_exec(header, li)
    IN  IF ~match.found
        THEN [outcome |-> afterLoop(header, index, obj), lastIndex |-> 0]
        ELSE IF match.index # index
        THEN [outcome |-> Throw("invalid parameter format"),
              lastIndex |-> match.end]
        ELSE parseParams(header, index + (match.end - match.index), match.end,
                 [obj EXCEPT !.parameters =
                     ObjSet(@, toLowerCase(match.key), paramValue(match.value))])

\* the assignment to PARAM_REGEXP.lastIndex left out
setLastIndex_kept(index, li) == li

\* PARAM_REGEXP.lastIndex = index, before the loop
setLastIndex(index, li) == index

\* parse(string), entered with PARAM_REGEXP.lastIndex = li
parse(string, li) ==
    IF Falsy(string)
    THEN [outcome |-> Throw("argument string is required"), lastIndex |-> li]
    ELSE
    LET got == IF string.t = "object" THEN getcontenttype(string) ELSE Return(string)
    IN  IF got.kind # "return" THEN [outcome |-> got, lastIndex |-> li]
        ELSE IF ~IsString(got.value)
        THEN [outcome |-> Throw("argument string is required to be a string"),
              lastIndex |-> li]
        ELSE
        LET header == got.value.s
            index == indexOf(header, SEMI)
            type == IF index # -1 THEN trim(substring(header, 0, index))
                    ELSE trim(header)
        IN  IF ~TYPE_REGEXP(type)
            THEN [outcome |-> Throw("invalid media type"), lastIndex |-> li]
            ELSE IF index # -1
            THEN parseParams(header, index, setLastIndex(index, li),
                             ContentType(toLowerCase(type)))
            ELSE [outcome |-> Return(ContentType(toLowerCase(type))),
                  lastIndex |-> li]

---------------------------------------------------------------------------
(* The calls.  JavaScript runs each call to its end before the next one    *)
(* starts, so a call is one step.                                          *)

\* a call of parse(a)
DoParse(a) ==
    LET r == parse(a, lastIndex)
    IN  /\ op' = "parse"
        /\ arg' = a
        /\ result' = r.outcome
        /\ lastIndex' = r.lastIndex
        /\ entryIndex' = lastIndex

\* a call of format(m); format writes neither to m nor to PARAM_REGEXP
DoFormat(m) ==
    /\ op' = "format"
    /\ arg' = m
    /\ result' = format(m)
    /\ entryIndex' = lastIndex
    /\ UNCHANGED lastIndex

\* the caller hands the string format returned to parse
ParseFormatted ==
    /\ op = "format"
    /\ result.kind = "return"
    /\ LET r == parse(Str(result.value), lastIndex)
       IN  /\ op' = "parse(format)"
           /\ result' = r.outcome
           /\ lastIndex' = r.lastIndex
           /\ entryIndex' = lastIndex
           /\ UNCHANGED arg

---------------------------------------------------------------------------
(* Bounded inputs.                                                         *)

\* the strings over alphabet A of length at most n
StrUpTo(A, n) == UNION {[1..k -> A] : k \in 0..n}

RECURSIVE Concat(_)
Concat(ss) == IF ss = <<>> THEN <<>> ELSE Head(ss) \o Concat(Tail(ss))

\* the concatenations of at most n strings of P
ConcatUpTo(P, n) == {Concat(ss) : ss \in StrUpTo(P, n)}

MaxParts == 3
MaxBody == 4
MaxOwsParams == 2
MaxCallParts == 3
MaxValueLen == 2
MaxFormatParams == 2

\* what a header may start with: media types, well-formed or not
TypeTexts ==
    {<<>>, <<LowerA, SLASH, UpperA>>, <<SP, LowerA, SLASH, UpperA>>,
     <<VT, LowerA, SLASH, UpperA>>, <<LowerA>>, <<LowerA, SLASH>>}

\* the fragments the rest of a header is put together from: single units, two
\* complete parameters and an opened quoted value
Parts ==
    {<<SEMI>>, <<EQUALS>>, <<LowerA>>, <<UpperA>>, <<SLASH>>, <<SP>>, <<HTAB>>,
     <<VT>>, <<DQUOTE>>, <<BSLASH>>, <<COLON>>,
     <<SEMI, UpperA, EQUALS, LowerA>>,
     <<SEMI, UpperA, EQUALS, DQUOTE, LowerA, DQUOTE>>,
     <<SEMI, LowerB, EQUALS, DQUOTE>>}

ParseInputs == {Str(t \o r) : t \in TypeTexts, r \in ConcatUpTo(Parts, MaxParts)}

InitWith(inputs) ==
    /\ lastIndex = 0
    /\ entryIndex = 0
    /\ op = "none"
    /\ arg \in inputs
    /\ result = Undefined

\* parse applied to the pending argument
ApplyParse == op = "none" /\ DoParse(arg)

InitParse == InitWith(ParseInputs)
NextParse == ApplyParse
SpecParse == InitParse /\ [][NextParse]_vars

---------------------------------------------------------------------------
(* Headers with one double-quoted parameter value.                         *)

QUnits == {LowerA, SP, SEMI, DQUOTE, BSLASH}
QTails == {<<>>, <<SEMI, LowerB, EQUALS, LowerA>>}

\* a/a;a="body" and what follows
QuotedHeader(body, tail) ==
    <<LowerA, SLASH, LowerA, SEMI, LowerA, EQUALS, DQUOTE>> \o body \o <<DQUOTE>> \o tail

QuotedInputs ==
    {Str(QuotedHeader(body, tail)) : body \in StrUpTo(QUnits, MaxBody), tail \in QTails}

InitQuoted == InitWith(QuotedInputs)
SpecQuoted == InitQuoted /\ [][NextParse]_vars

---------------------------------------------------------------------------
(* Headers with runs of spaces and horizontal tabs where optional          *)
(* whitespace may stand.                                                   *)

OwsRuns == {<<>>, <<SP>>, <<HTAB>>}
OwsValues == {<<UpperA>>, <<DQUOTE, LowerA, SP, UpperA, DQUOTE>>}

OwsOneParam ==
    {w[1] \o <<LowerA, SLASH, UpperA>> \o w[2] \o <<SEMI>> \o w[3] \o <<UpperA>>
        \o w[4] \o <<EQUALS>> \o w[5] \o v \o w[6] :
        w \in [1..6 -> OwsRuns], v \in OwsValues}

OwsTwoParams ==
    {<<LowerA, SLASH, UpperA>> \o w[1] \o <<SEMI>> \o w[2] \o <<LowerA, EQUALS>> \o v
        \o w[3] \o <<SEMI>> \o w[4] \o <<LowerB, EQUALS, LowerA>> \o w[5] :
        w \in [1..5 -> OwsRuns], v \in OwsValues}

OwsHeaders ==
    IF MaxOwsParams >= 2 THEN OwsOneParam \cup OwsTwoParams ELSE OwsOneParam

OwsInputs == {Str(h) : h \in OwsHeaders}

InitOws == InitWith(OwsInputs)
SpecOws == InitOws /\ [][NextParse]_vars

---------------------------------------------------------------------------
(* Objects handed to format.                                               *)

\* a ContentType-like object; type and parameters may be missing
MediaType(type, parameters) == [t |-> "object", type |-> type, parameters |-> parameters]
Params(entries) == [t |-> "object", entries |-> entries]

ValUnits == {LowerA, SP, DQUOTE, BSLASH, HTAB, VT}
FewValues == {<<>>, <<UpperA>>, <<LowerA, SP, DQUOTE>>}
FormatNames == {<<LowerA>>, <<LowerB>>, <<LowerA, LowerA>>, <<UpperA>>, <<COLON>>}
OddTypes ==
    {Undefined, Str(<<>>), Str(<<LowerA>>), Str(<<UpperA, SLASH, LowerA>>),
     Str(<<LowerA, SLASH, LowerA, SLASH, LowerA>>), Str(<<SP, LowerA, SLASH, LowerA>>)}

\* the objects of at most n parameters with distinct names, in every insertion order
EntriesUpTo(n) ==
    {e \in StrUpTo(FormatNames \X FewValues, n) :
        \A i, j \in 1..Len(e) : i # j => e[i][1] # e[j][1]}

FormatInputs ==
    {Undefined}
    \cup {MediaType(ty, Undefined) : ty \in OddTypes}
    \cup {MediaType(ty, Params(<<<<(<<LowerA>>), (<<LowerA>>)>>>>)) : ty \in OddTypes}
    \cup {MediaType(Str(<<LowerA, SLASH, LowerA>>), Params(<<<<n, v>>>>)) :
            n \in FormatNames, v \in StrUpTo(ValUnits, MaxValueLen)}
    \cup {MediaType(Str(<<LowerA, SLASH, LowerA>>), Params(e)) :
            e \in EntriesUpTo(MaxFormatParams)}

\* format applied to the pending argument
ApplyFormat == op = "none" /\ DoFormat(arg)

InitFormat == InitWith(FormatInputs)
NextFormat == ApplyFormat \/ ParseFormatted
SpecFormat == InitFormat /\ [][NextFormat]_vars

---------------------------------------------------------------------------
(* Any sequence of calls.                                                  *)

Num == [t |-> "number", n |-> 7]

CallParts ==
    {<<SEMI>>, <<SEMI, LowerA, EQUALS, UpperA>>,
     <<SEMI, UpperA, EQUALS, DQUOTE, LowerA, DQUOTE>>}

CallHeaders ==
    {<<>>} \cup {<<LowerA, SLASH, UpperA>> \o r : r \in ConcatUpTo(CallParts, MaxCallParts)}

\* what a collaborator may hold as its content-type
Lookups ==
    {Undefined, Str(<<>>), Str(<<LowerA, SLASH, UpperA, SEMI, LowerA, EQUALS, UpperA>>)}

\* objects handed to parse: instances of http.IncomingMessage, of
\* http.ServerResponse or of neither, with or without headers and getHeader
Collaborators ==
    {[t |-> "object", class |-> c, headers |-> h, getHeader |-> g] :
        c \in {"IncomingMessage", "ServerResponse", "Object"},
        h \in {Undefined} \cup {[t |-> "object", contentType |-> x] : x \in Lookups},
        g \in {Undefined} \cup {[t |-> "function", returns |-> x] : x \in Lookups}}

CallArgs == {Undefined, Num} \cup {Str(h) : h \in CallHeaders} \cup Collaborators

CallObjs ==
    {Undefined}
    \cup {MediaType(Str(<<LowerA, SLASH, LowerA>>), Params(e)) : e \in EntriesUpTo(1)}

CallParse == \E a \in CallArgs : DoParse(a)
CallFormat == \E m \in CallObjs : DoFormat(m)

Init ==
    /\ lastIndex = 0
    /\ entryIndex = 0
    /\ op = "none"
    /\ arg = Undefined
    /\ result = Undefined

Next == CallParse \/ CallFormat \/ ParseFormatted

Spec == Init /\ [][Next]_vars

---------------------------------------------------------------------------
(* The grammar the claims speak of, stated on its own: what a token, a     *)
(* media type and a list of parameters are, without the matcher's cursor.  *)

\* digits, letters and !#$%&'*+-.^_`|~
RefTchars ==
    (48..57) \cup (65..90) \cup (97..122)
        \cup {33, 35, 36, 37, 38, 39, 42, 43, 45, 46, 94, 95, 96, 124, 126}

RefToken(s) == Len(s) >= 1 /\ \A i \in 1..Len(s) : s[i] \in RefTchars

\* token "/" token
RefMediaType(s) ==
    /\ Cardinality({i \in 1..Len(s) : s[i] = SLASH}) = 1
    /\ LET i == CHOOSE i \in 1..Len(s) : s[i] = SLASH
       IN  RefToken(SubSeq(s, 1, i - 1)) /\ RefToken(SubSeq(s, i + 1, Len(s)))

\* s without the units of W at its two ends
RECURSIVE Strip(_, _)
Strip(s, W) ==
    IF s = <<>> THEN s
    ELSE IF s[1] \in W THEN Strip(Tail(s), W)
    ELSE IF s[Len(s)] \in W THEN Strip(SubSeq(s, 1, Len(s) - 1), W)
    ELSE s

\* space and horizontal tab
OwsUnits == {SP, HTAB}

\* the white space and line terminators of ECMAScript
TrimUnits ==
    {9, 10, 11, 12, 13, 32, 160, 5760, 8232, 8233, 8239, 8287, 12288, 65279}
        \cup (8192..8202)

HasSemi(h) == \E i \in 1..Len(h) : h[i] = SEMI

\* the place of the first ";" (1-based)
FirstSemi(h) ==
    CHOOSE i \in 1..Len(h) : h[i] = SEMI /\ \A j \in 1..(i - 1) : h[j] # SEMI

\* the text before the first ";", or all of it
Candidate(h) == IF HasSemi(h) THEN SubSeq(h, 1, FirstSemi(h) - 1) ELSE h

\* the text from the first ";" on
FromFirstSemi(h) == SubSeq(h, FirstSemi(h), Len(h))

\* the body of a quoted string: units of quoted text and backslash pairs, in
\* the units PARAM_REGEXP takes for them
RECURSIVE RefQBody(_)
RefQBody(b) ==
    \/ b = <<>>
    \/ /\ b # <<>>
       /\ b[1] \notin {DQUOTE, BSLASH}
       /\ (b[1] = VT \/ b[1] \in 32..126 \/ b[1] \in 128..255)
       /\ RefQBody(Tail(b))
    \/ /\ Len(b) >= 2
       /\ b[1] = BSLASH
       /\ (b[2] = VT \/ b[2] \in 32..255)
       /\ RefQBody(SubSeq(b, 3, Len(b)))

RefQuotedString(s) ==
    /\ Len(s) >= 2
    /\ s[1] = DQUOTE
    /\ s[Len(s)] = DQUOTE
    /\ RefQBody(SubSeq(s, 2, Len(s) - 1))

\* one parameter:  ";" spaces token spaces "=" spaces (token | quoted-string) spaces
RefParam(p) ==
    /\ p # <<>>
    /\ p[1] = SEMI
    /\ \E e \in 2..Len(p) :
        /\ p[e] = EQUALS
        /\ RefToken(Strip(SubSeq(p, 2, e - 1), {SP}))
        /\ LET v == Strip(SubSeq(p, e + 1, Len(p)), {SP})
           IN  RefToken(v) \/ RefQuotedString(v)

\* a concatenation of parameters, each starting where the one before ended
RECURSIVE RefParams(_)
RefParams(s) ==
    \/ s = <<>>
    \/ \E k \in 1..Len(s) :
        /\ k = Len(s) \/ s[k + 1] = SEMI
        /\ RefParam(SubSeq(s, 1, k))
        /\ RefParams(SubSeq(s, k + 1, Len(s)))

\* the lower-casing of ASCII text
RefLower(s) == [i \in 1..Len(s) |-> IF s[i] \in 65..90 THEN s[i] + 32 ELSE s[i]]

NoUpper(s) == \A i \in 1..Len(s) : s[i] \notin 65..90

\* the name-to-value mapping of an object
AsMap(o) == [k \in {o[i][1] : i \in 1..Len(o)} |-> ObjGet(o, k)]

\* s cut at every unit c
RECURSIVE Split(_, _)
Split(s, c) ==
    IF \E i \in 1..Len(s) : s[i] = c
    THEN LET i == CHOOSE i \in 1..Len(s) : s[i] = c /\ \A j \in 1..(i - 1) : s[j] # c
         IN  <<SubSeq(s, 1, i - 1)>> \o Split(SubSeq(s, i + 1, Len(s)), c)
    ELSE <<s>>

\* the name and the value of  name "=" value, spaces around them dropped
PieceName(p) == Strip(Split(p, EQUALS)[1], {SP})
PieceValue(p) == Strip(SubSeq(p, Len(Split(p, EQUALS)[1]) + 2, Len(p)), {SP})

\* the parameters of h, as written between its ";"
Pieces(h) == Tail(Split(h, SEMI))

\* every parameter of h is  token "=" token: no value is quoted
AllUnquoted(h) ==
    /\ HasSemi(h)
    /\ \A i \in 1..Len(Pieces(h)) :
        LET p == Pieces(h)[i]
        IN  /\ \E j \in 1..Len(p) : p[j] = EQUALS
            /\ RefToken(PieceName(p))
            /\ RefToken(PieceValue(p))

\* what the parameters of such a header say: each lower-cased name with the
\* value of its last occurrence
UnquotedMap(h) ==
    LET ps == Pieces(h)
        last(k) == CHOOSE i \in 1..Len(ps) :
                      /\ RefLower(PieceName(ps[i])) = k
                      /\ \A j \in (i + 1)..Len(ps) : RefLower(PieceName(ps[j])) # k
    IN  [k \in {RefLower(PieceName(ps[i])) : i \in 1..Len(ps)} |-> PieceValue(ps[last(k)])]

ParsedString == op = "parse" /\ arg.t = "string"

---------------------------------------------------------------------------
(* Claims about parse of a string, under SpecParse.                        *)

C4_AsClaimed ==
    (ParsedString /\ arg.s # <<>>) =>
        ((result = Throw("invalid media type"))
            <=> ~RefMediaType(Strip(Candidate(arg.s), OwsUnits)))

\* C4, amended: a non-empty string fails with "invalid media type" exactly
\* when the text before the first ";", with everything String.prototype.trim
\* removes taken from its two ends (space and horizontal tab, and vertical tab,
\* line feed, form feed, carriage return, no-break space and the other
\* ECMAScript white space), is not token "/" token; whatever the parameters.
C4_MediaTypeChecked ==
    (ParsedString /\ arg.s # <<>>) =>
        ((result = Throw("invalid media type"))
            <=> ~RefMediaType(Strip(Candidate(arg.s), TrimUnits)))

\* a media type after a vertical tab is accepted
C4_Witness ==
    /\ ParsedString
    /\ arg.s # <<>>
    /\ arg.s[1] = VT
    /\ HasSemi(arg.s)
    /\ result.kind = "return"

\* C6: a MediaType parse returns has no upper-case letter in its type nor in
\* its parameter names; the type is the lower-casing of the media type as
\* written; and when no value is quoted, the parameters are the lower-cased
\* names with the values exactly as written.
C6_CaseNormalised ==
    (ParsedString /\ result.kind = "return") =>
        LET ps == result.value.parameters
        IN  /\ NoUpper(result.value.type)
            /\ result.value.type = RefLower(Strip(Candidate(arg.s), TrimUnits))
            /\ \A i \in 1..Len(ps) : NoUpper(ps[i][1])
            /\ AllUnquoted(arg.s) => AsMap(ps) = UnquotedMap(arg.s)

\* a/A;A=aA gives type a/a and a = aA
C6_Witness ==
    /\ ParsedString
    /\ arg.s = <<LowerA, SLASH, UpperA, SEMI, UpperA, EQUALS, LowerA, UpperA>>
    /\ result = Return([type |-> <<LowerA, SLASH, LowerA>>,
                        parameters |-> <<<<(<<LowerA>>), (<<LowerA, UpperA>>)>>>>])

---------------------------------------------------------------------------
(* The claim about quoted values, under SpecQuoted.                        *)

\* the text between the quotes of a header made by QuotedHeader
QuotedBodyOf(h) ==
    LET tail == IF h[Len(h)] = DQUOTE THEN <<>> ELSE <<SEMI, LowerB, EQUALS, LowerA>>
    IN  SubSeq(h, Len(QuotedHeader(<<>>, <<>>)), Len(h) - Len(tail) - 1)

\* the body with each escaping backslash dropped
RECURSIVE RefUnescape(_)
RefUnescape(b) ==
    IF b = <<>> THEN <<>>
    ELSE IF b[1] = BSLASH THEN <<b[2]>> \o RefUnescape(SubSeq(b, 3, Len(b)))
    ELSE <<b[1]>> \o RefUnescape(Tail(b))

\* C1: parse stores, for a double-quoted value, the text between the quotes
\* with every backslash pair replaced by the unit escaped.
C1_AsClaimed ==
    (ParsedString /\ RefQBody(QuotedBodyOf(arg.s))) =>
        /\ result.kind = "return"
        /\ AsMap(result.value.parameters)[<<LowerA>>] = RefUnescape(QuotedBodyOf(arg.s))

---------------------------------------------------------------------------
(* The claim about optional whitespace, under SpecOws.                     *)

\* h without its spaces and horizontal tabs outside double quotes
RECURSIVE RemoveOws(_, _)
RemoveOws(h, inQuotes) ==
    IF h = <<>> THEN <<>>
    ELSE IF inQuotes /\ h[1] = BSLASH /\ Len(h) >= 2
    THEN <<h[1], h[2]>> \o RemoveOws(SubSeq(h, 3, Len(h)), inQuotes)
    ELSE IF h[1] = DQUOTE THEN <<h[1]>> \o RemoveOws(Tail(h), ~inQuotes)
    ELSE IF ~inQuotes /\ h[1] \in OwsUnits THEN RemoveOws(Tail(h), inQuotes)
    ELSE <<h[1]>> \o RemoveOws(Tail(h), inQuotes)

\* C5: a header with runs of spaces and horizontal tabs around the media type,
\* around each ";", around each "=" and after each value parses to what the
\* header without them parses to.
C5_AsClaimed ==
    ParsedString =>
        LET bare == parse(Str(RemoveOws(arg.s, FALSE)), 0).outcome
        IN  bare.kind = "return" /\ result = bare

---------------------------------------------------------------------------
(* Claims about format, under SpecFormat.                                  *)

\* the quoted-text set as the specification gives it: horizontal tab, space,
\* visible ASCII and 0x80-0xFF
SpecQuotedText == {HTAB} \cup (32..126) \cup (128..255)

\* the units TEXT_REGEXP takes
CodeText == {VT} \cup (32..126) \cup (128..255)

Entries(m) == IF m.parameters.t = "object" THEN m.parameters.entries ELSE <<>>

\* format gets as far as the parameter values: an object with a valid type
\* whose parameter names are all tokens
ReachesValues(m) ==
    /\ m.t = "object"
    /\ m.type.t = "string"
    /\ RefMediaType(m.type.s)
    /\ \A i \in 1..Len(Entries(m)) : RefToken(Entries(m)[i][1])

\* needle is in hay, and what follows it there is the end or a ";"
HasSegment(hay, needle) ==
    \E i \in 1..(Len(hay) - Len(needle) + 1) :
        /\ SubSeq(hay, i, i + Len(needle) - 1) = needle
        /\ (i + Len(needle) - 1 = Len(hay) \/ hay[i + Len(needle)] = SEMI)

RefBefore(a, b) ==
    \E n \in 0..Len(a) :
        /\ n <= Len(b)
        /\ SubSeq(a, 1, n) = SubSeq(b, 1, n)
        /\ \/ n = Len(a) /\ n < Len(b)
           \/ n < Len(a) /\ n < Len(b) /\ a[n + 1] < b[n + 1]

\* a value as it is written: a token bare, anything else between quotes with a
\* backslash before each backslash and each quote
RefWritten(v) ==
    IF RefToken(v) THEN v
    ELSE <<DQUOTE>>
         \o Concat([i \in 1..Len(v) |->
                IF v[i] \in {BSLASH, DQUOTE} THEN <<BSLASH, v[i]>> ELSE <<v[i]>>])
         \o <<DQUOTE>>

\* the header of a type and a name-to-value mapping, the names ascending
RefFormat(type, map) ==
    LET n == Cardinality(DOMAIN map)
        ks == CHOOSE ks \in [1..n -> DOMAIN map] :
                  \A i, j \in 1..n : i < j => RefBefore(ks[i], ks[j])
    IN  type \o Concat([i \in 1..n |->
            <<SEMI, SP>> \o ks[i] \o <<EQUALS>> \o RefWritten(map[ks[i]])])

PlainText == (32..126) \cup (128..255)

\* what the round trip is claimed for: a lower-case token "/" token type,
\* lower-case token names, values that are tokens or non-empty quoted text
RoundTrippable(m) ==
    /\ ReachesValues(m)
    /\ NoUpper(m.type.s)
    /\ \A i \in 1..Len(Entries(m)) :
        LET e == Entries(m)[i]
        IN  /\ NoUpper(e[1])
            /\ \/ RefToken(e[2])
               \/ e[2] # <<>> /\ \A j \in 1..Len(e[2]) : e[2][j] \in PlainText

\* C2: for such an object format returns, and parse of what it returns gives
\* the same type and the same name-to-value mapping.
C2_AsClaimed ==
    /\ (op = "format" /\ RoundTrippable(arg)) => result.kind = "return"
    /\ (op = "parse(format)" /\ RoundTrippable(arg)) =>
           /\ result.kind = "return"
           /\ result.value.type = arg.type.s
           /\ AsMap(result.value.parameters) = AsMap(Entries(arg))

---------------------------------------------------------------------------
(* Claims about sequences of calls, under Spec.                            *)

MaxLastIndex == 12

\* the strings a collaborator exposes: a content-type entry of its headers
\* mapping, or what its getHeader returns
Exposed(obj) ==
    (IF obj.headers.t = "object" /\ IsString(obj.headers.contentType)
     THEN {obj.headers.contentType.s} ELSE {})
    \cup
    (IF obj.getHeader.t = "function" /\ IsString(obj.getHeader.returns)
     THEN {obj.getHeader.returns.s} ELSE {})

\* C7: parse of a collaborator that exposes a content-type string returns the
\* MediaType parse of that string returns, and parse of one that exposes none
\* fails with "content-type header is missing from object".
C7_AsClaimed ==
    (op = "parse" /\ arg.t = "object") =>
        IF Exposed(arg) = {}
        THEN result = Throw("content-type header is missing from object")
        ELSE \E h \in Exposed(arg) :
                LET direct == parse(Str(h), 0).outcome
                IN  direct.kind = "return" => result = direct

\* C10: the outcome of a call is decided by its argument alone: it is the
\* outcome of the same call made with the matcher at any scan position, so
\* the position an earlier call left, also one that threw in the middle of
\* its scan, changes nothing and a repeated call repeats its outcome.
C10_OutcomeOfArgumentAlone ==
    \A li \in 0..MaxLastIndex :
        /\ op = "parse" => result = parse(arg, li).outcome
        /\ op = "format" => result = format(arg)
        /\ op = "parse(format)" => result = parse(Str(format(arg).value), li).outcome

\* a call that found the matcher in the middle of an earlier scan returned a
\* MediaType with a parameter
C10_Witness ==
    /\ op = "parse"
    /\ entryIndex > 0
    /\ result.kind = "return"
    /\ result.value.parameters # <<>>

===========================================================================
